---- MODULE Spec2Model ----
(***************************************************************************)
(* A model of chaosk8s_wix (chaostoolkit-k8s-wix): the list-based health   *)
(* probes, the deployment convergence watch and the fleet scan of          *)
(* src/chaosk8s_wix/probes.py, the quorum check of consul/probes.py, the   *)
(* client factory of __init__.py, the kill actions of actions.py and the   *)
(* node taint filter of node/probes.py.                                    *)
(*                                                                         *)
(* Python values are modelled as follows.                                  *)
(*   - an Optional value is a sequence: None is << >>, a present value x   *)
(*     is <<x>>, so that Python's  a != b  on Optional ints is  a # b;     *)
(*   - a formatted string is the sequence of its pieces, the placeholder   *)
(*     "{name}" being one piece that str.format replaces;                  *)
(*   - the value a probe returns is one of the strings "True", "False",    *)
(*     "None" (the implicit return of a function that falls off its end);  *)
(*   - the result set of a list call (ret.items) and the events of a watch *)
(*     stream are inputs, drawn from bounded sets.                         *)
(***************************************************************************)
EXTENDS Integers, Sequences, FiniteSets, TLC

VARIABLES
    pc,        \* position of the orchestrator: "idle", "watching", "done"
    activity,  \* the probe being invoked ("" when idle)
    args,      \* the arguments of the invocation
    ret,       \* ret.items / pods.items: the result set the list call returned
    calls,     \* the cluster API calls the invocation issued, in order
    outcome,   \* how the invocation ended: a returned value or a raised exception
    consumed,  \* the watch events the loop of the convergence watch received
    stopped,   \* whether w.stop() was called
    streamEnd, \* how the watch stream ended: "" (it has not), "StopIteration"
               \* (exhausted) or the exception it raised
    log,       \* the logger.info records of the fleet scan, in order
    env,       \* os.environ as the invocation finds it
    client,    \* the client handle create_k8s_api_client built (None: none)
    kubeDefault, \* the process-wide default configuration of the kubernetes
               \* package (None until load_incluster_config sets it)
    cluster,   \* the resources of the cluster: deployments, replica sets, pods
    earlier,   \* history: an earlier invocation put on record (None: none)
    raisedSince \* history: an invocation raised since that record was made

vars == <<pc, activity, args, ret, calls, outcome, consumed, stopped, streamEnd,
          log, env, client, kubeDefault, cluster, earlier, raisedSince>>

----------------------------------------------------------------------------
(* Bounds of the model. *)

MaxPods == 3          \* pods in a namespaced pod list
MaxDeployments == 2   \* deployments in a result set
MaxReplicas == 2      \* replica counts range over 0..MaxReplicas
MaxEvents == 2        \* watch events delivered before the stream ends or fails
MaxFleet == 2         \* pods in the list of all namespaces
MaxContainers == 2    \* containers of the fleet, all pods together
MaxServices == 2      \* services in a result set
MaxInstances == 2     \* entries of a consul health listing
MaxChecks == 1        \* health checks of one entry
MaxResources == 3     \* resources in the cluster
MaxNodes == 2         \* nodes in a node list
MaxNamespaces == 2    \* namespaces list_namespace returns
MaxObjects == 2       \* documents of a YAML template
MaxTaints == 2        \* taints of one node

----------------------------------------------------------------------------
(* Python values. *)

None == << >>
Some(x) == <<x>>

SeqsUpTo(S, n) == UNION {[1..k -> S] : k \in 0..n}

Names == {"mysvc", "other"}
Namespaces == {"default", "db-catalog"}

(* label_selector templates: the default of every probe and a selector     *)
(* without a placeholder (test_can_select_by_label).                       *)
Placeholder == "{name}"
DefaultSelector == <<"name in (", Placeholder, ")">>
Selectors == {DefaultSelector, <<"app=my-super-app">>}

(* str.format(name=name): every "{name}" piece is replaced by the name. *)
Format(template, name) ==
    [i \in DOMAIN template |->
        IF template[i] = Placeholder THEN name ELSE template[i]]

(* The outcomes of an invocation. *)
NoOutcome == [kind |-> "none", value |-> "", exc |-> "", msg |-> << >>]
Return(v) == [kind |-> "return", value |-> v, exc |-> "", msg |-> << >>]
Raise(e, m) == [kind |-> "raise", value |-> "", exc |-> e, msg |-> m]
FailedActivity(m) == Raise("FailedActivity", m)

NoArgs == [name |-> "", ns |-> "", label_selector |-> << >>,
           timeout |-> 0, ns_ignore_list |-> None]

(* A variant that issues a delete where the code lists. *)
ListCallDeleting(api, ns, selector) ==
    [verb |-> "delete", api |-> api, ns |-> ns, label_selector |-> selector]

ListCall(api, ns, selector) ==
    [verb |-> "list", api |-> api, ns |-> ns, label_selector |-> selector]

----------------------------------------------------------------------------
(* all_microservices_healthy *)

Phases == {"Pending", "Running", "Succeeded", "Failed", "Unknown"}

(* The loop of lines 38-43: p is appended to `failed` when its phase is     *)
(* "Failed", to `not_ready` when its phase is anything but "Running".      *)
RECURSIVE ClassifyPods(_, _, _, _)
ClassifyPods(items, i, failed, not_ready) ==
    IF i > Len(items)
    THEN [failed |-> failed, not_ready |-> not_ready]
    ELSE IF items[i] = "Failed"
    THEN ClassifyPods(items, i + 1, Append(failed, i), not_ready)
    ELSE IF items[i] # "Running"
    THEN ClassifyPods(items, i + 1, failed, Append(not_ready, i))
    ELSE ClassifyPods(items, i + 1, failed, not_ready)

(* A variant that forgets the `failed` list. *)
UnhealthyVerdictNotReadyOnly(failed, not_ready) ==
    IF not_ready # << >>
    THEN FailedActivity(<<"the system is unhealthy">>)
    ELSE Return("True")

(* if failed or not_ready: raise FailedActivity(...); return True *)
UnhealthyVerdict(failed, not_ready) ==
    IF failed # << >> \/ not_ready # << >>
    THEN FailedActivity(<<"the system is unhealthy">>)
    ELSE Return("True")

AllMicroservicesHealthyResult(items) ==
    LET c == ClassifyPods(items, 1, << >>, << >>)
    IN  UnhealthyVerdict(c.failed, c.not_ready)

(* A variant with an error flag that outlives the invocation: once an     *)
(* invocation has raised, this probe raises whatever it lists.             *)
AllMicroservicesHealthySticky ==
    /\ pc = "idle"
    /\ \E ns \in Namespaces, items \in SeqsUpTo(Phases, MaxPods) :
        /\ activity' = "all_microservices_healthy"
        /\ args' = [NoArgs EXCEPT !.ns = ns]
        /\ calls' = <<ListCall("list_namespaced_pod", ns, None)>>
        /\ ret' = items
        /\ outcome' = IF raisedSince
                      THEN FailedActivity(<<"the system is unhealthy">>)
                      ELSE AllMicroservicesHealthyResult(items)
    /\ pc' = "done"
    /\ UNCHANGED <<consumed, stopped, streamEnd, log,
                   env, client, kubeDefault, cluster, earlier, raisedSince>>

AllMicroservicesHealthy ==
    /\ pc = "idle"
    /\ \E ns \in Namespaces, items \in SeqsUpTo(Phases, MaxPods) :
        /\ activity' = "all_microservices_healthy"
        /\ args' = [NoArgs EXCEPT !.ns = ns]
        /\ calls' = <<ListCall("list_namespaced_pod", ns, None)>>
        /\ ret' = items
        /\ outcome' = AllMicroservicesHealthyResult(items)
    /\ pc' = "done"
    /\ UNCHANGED <<consumed, stopped, streamEnd, log,
                 env, client, kubeDefault, cluster,
                 earlier, raisedSince>>

----------------------------------------------------------------------------
(* microservice_available_and_healthy *)

Replicas == 0..MaxReplicas
OptReplicas == {None} \cup {Some(n) : n \in Replicas}

(* A deployment of the result set: status.available_replicas (None when    *)
(* the API omits it) and spec.replicas.                                    *)
Deployments == [available_replicas : OptReplicas, replicas : Replicas]

NotFoundMsg(name) == <<"microservice '", name, "' was not found">>
NotHealthyMsg(name) == <<"microservice '", name, "' is not healthy">>

(* A variant that accepts more available than desired replicas. *)
DeploymentUnhealthyBelow(d) ==
    \/ d.available_replicas = None
    \/ d.available_replicas[1] < d.replicas

(* d.status.available_replicas != d.spec.replicas *)
DeploymentUnhealthy(d) == d.available_replicas # Some(d.replicas)

(* The loop of lines 80-86: the first unhealthy deployment raises. *)
RECURSIVE DeploymentsLoop(_, _, _)
DeploymentsLoop(name, items, i) ==
    IF i > Len(items)
    THEN Return("True")
    ELSE IF DeploymentUnhealthy(items[i])
    THEN FailedActivity(NotHealthyMsg(name))
    ELSE DeploymentsLoop(name, items, i + 1)

(* A variant without the check of an empty result set. *)
MicroserviceAvailableAndHealthyNoEmptyCheck(name, items) ==
    DeploymentsLoop(name, items, 1)

MicroserviceAvailableAndHealthyResult(name, items) ==
    IF items = << >>
    THEN FailedActivity(NotFoundMsg(name))
    ELSE DeploymentsLoop(name, items, 1)

MicroserviceAvailableAndHealthy ==
    /\ pc = "idle"
    /\ \E name \in Names, ns \in Namespaces, sel \in Selectors,
          items \in SeqsUpTo(Deployments, MaxDeployments) :
        /\ activity' = "microservice_available_and_healthy"
        /\ args' = [NoArgs EXCEPT !.name = name, !.ns = ns,
                                  !.label_selector = sel]
        /\ calls' = <<ListCall("list_namespaced_deployment", ns,
                               Some(Format(sel, name)))>>
        /\ ret' = items
        /\ outcome' = MicroserviceAvailableAndHealthyResult(name, items)
    /\ pc' = "done"
    /\ UNCHANGED <<consumed, stopped, streamEnd, log,
                 env, client, kubeDefault, cluster,
                 earlier, raisedSince>>

----------------------------------------------------------------------------
(* microservice_is_not_available *)

ActuallyRunningMsg(name) == <<"microservice '", name, "' is actually running">>

(* A variant that also takes a Pending pod for a running one. *)
PodIsRunningOrPending(phase) == phase \in {"Running", "Pending"}

(* if phase == "Running" *)
PodIsRunning(phase) == phase = "Running"

(* The loop of lines 110-116: the first Running pod raises. *)
RECURSIVE PodsLoop(_, _, _)
PodsLoop(name, items, i) ==
    IF i > Len(items)
    THEN Return("True")
    ELSE IF PodIsRunning(items[i])
    THEN FailedActivity(ActuallyRunningMsg(name))
    ELSE PodsLoop(name, items, i + 1)

MicroserviceIsNotAvailable ==
    /\ pc = "idle"
    /\ \E name \in Names, ns \in Namespaces, sel \in Selectors,
          items \in SeqsUpTo(Phases, MaxPods) :
        /\ activity' = "microservice_is_not_available"
        /\ args' = [NoArgs EXCEPT !.name = name, !.ns = ns,
                                  !.label_selector = sel]
        /\ calls' = <<ListCall("list_namespaced_pod", ns,
                               Some(Format(sel, name)))>>
        /\ ret' = items
        /\ outcome' = PodsLoop(name, items, 1)
    /\ pc' = "done"
    /\ UNCHANGED <<consumed, stopped, streamEnd, log,
                 env, client, kubeDefault, cluster,
                 earlier, raisedSince>>

----------------------------------------------------------------------------
(* service_endpoint_is_initialized *)

(* A service of the result set, by its metadata.name. *)
Services == {"mysvc-http", "mysvc-grpc"}

NotInitializedMsg(name) == <<"service '", name, "' is not initialized">>

(* A variant that returns False on an empty result set. *)
ServiceEndpointIsInitializedFalsy(name, items) ==
    IF items = << >>
    THEN Return("False")
    ELSE Return("True")

(* if not ret.items: raise FailedActivity(...); return True *)
ServiceEndpointIsInitializedResult(name, items) ==
    IF items = << >>
    THEN FailedActivity(NotInitializedMsg(name))
    ELSE Return("True")

ServiceEndpointIsInitialized ==
    /\ pc = "idle"
    /\ \E name \in Names, ns \in Namespaces, sel \in Selectors,
          items \in SeqsUpTo(Services, MaxServices) :
        /\ activity' = "service_endpoint_is_initialized"
        /\ args' = [NoArgs EXCEPT !.name = name, !.ns = ns,
                                  !.label_selector = sel]
        /\ calls' = <<ListCall("list_namespaced_service", ns,
                               Some(Format(sel, name)))>>
        /\ ret' = items
        /\ outcome' = ServiceEndpointIsInitializedResult(name, items)
    /\ pc' = "done"
    /\ UNCHANGED <<consumed, stopped, streamEnd, log,
                 env, client, kubeDefault, cluster,
                 earlier, raisedSince>>

----------------------------------------------------------------------------
(* deployment_is_not_fully_available: the convergence watch.               *)
(* w.stream(...) is an iterator: each step of the loop it yields an event, *)
(* raises, or is exhausted.                                                *)

DefaultTimeout == 30
Timeouts == {DefaultTimeout, 5}

EventTypes == {"ADDED", "MODIFIED", "DELETED"}

(* A watch event: its type and its deployment's status.ready_replicas      *)
(* (None when the API omits it) and spec.replicas.                         *)
Events == [type : EventTypes, ready_replicas : OptReplicas, replicas : Replicas]

(* What the stream can raise besides the read timeout. *)
ReadTimeoutError == "ReadTimeoutError"
TransportFaults == {"ApiException", "ProtocolError", "MaxRetryError"}

WatchCall(ns, selector, timeout) ==
    [verb |-> "watch", api |-> "list_namespaced_deployment", ns |-> ns,
     label_selector |-> selector, request_timeout |-> timeout]

TimeoutMsg(name, t) ==
    <<"microservice '", name, "' failed to stop running within ", t, "s">>

(* A variant that does not count a missing ready_replicas. *)
NotFullyReadyIgnoringNone(ev) ==
    ev.ready_replicas # None /\ ev.ready_replicas # Some(ev.replicas)

(* status.ready_replicas != spec.replicas *)
NotFullyReady(ev) == ev.ready_replicas # Some(ev.replicas)

(* A variant whose handler catches every exception. *)
StreamRaisedCatchAll(name, t, exc) == FailedActivity(TimeoutMsg(name, t))

(* except urllib3.exceptions.ReadTimeoutError: raise FailedActivity(...);  *)
(* any other exception leaves the function as it is.                       *)
StreamRaised(name, t, exc) ==
    IF exc = ReadTimeoutError
    THEN FailedActivity(TimeoutMsg(name, t))
    ELSE Raise(exc, << >>)

(* Lines 154-162: the selector is formatted and the stream is opened.      *)
(* The timeouts drawn are ints, which int(timeout) leaves as they are.     *)
WatchStart ==
    /\ pc = "idle"
    /\ \E name \in Names, ns \in Namespaces, sel \in Selectors, t \in Timeouts :
        /\ activity' = "deployment_is_not_fully_available"
        /\ args' = [NoArgs EXCEPT !.name = name, !.ns = ns,
                                  !.label_selector = sel, !.timeout = t]
        /\ calls' = <<WatchCall(ns, Some(Format(sel, name)), t)>>
    /\ pc' = "watching"
    /\ UNCHANGED <<ret, outcome, consumed, stopped, streamEnd, log,
                 env, client, kubeDefault, cluster,
                 earlier, raisedSince>>

(* Lines 162-181: the stream yields an event and the loop body runs. *)
WatchEvent ==
    /\ pc = "watching"
    /\ Len(consumed) < MaxEvents
    /\ \E ev \in Events :
        /\ consumed' = Append(consumed, ev)
        /\ IF NotFullyReady(ev)
           THEN /\ stopped' = TRUE
                /\ outcome' = Return("True")
                /\ pc' = "done"
           ELSE UNCHANGED <<stopped, outcome, pc>>
    /\ UNCHANGED <<activity, args, ret, calls, streamEnd, log,
                 env, client, kubeDefault, cluster,
                 earlier, raisedSince>>

(* Lines 183-187: the stream raises ReadTimeoutError. *)
WatchReadTimeout ==
    /\ pc = "watching"
    /\ streamEnd' = ReadTimeoutError
    /\ outcome' = StreamRaised(args.name, args.timeout, ReadTimeoutError)
    /\ pc' = "done"
    /\ UNCHANGED <<activity, args, ret, calls, consumed, stopped, log,
                 env, client, kubeDefault, cluster,
                 earlier, raisedSince>>

(* The stream raises another exception. *)
WatchFault ==
    /\ pc = "watching"
    /\ \E exc \in TransportFaults :
        /\ streamEnd' = exc
        /\ outcome' = StreamRaised(args.name, args.timeout, exc)
    /\ pc' = "done"
    /\ UNCHANGED <<activity, args, ret, calls, consumed, stopped, log,
                 env, client, kubeDefault, cluster,
                 earlier, raisedSince>>

(* The stream is exhausted: the for loop ends and the function falls off   *)
(* its end, which returns None.                                            *)
WatchExhausted ==
    /\ pc = "watching"
    /\ streamEnd' = "StopIteration"
    /\ outcome' = Return("None")
    /\ pc' = "done"
    /\ UNCHANGED <<activity, args, ret, calls, consumed, stopped, log,
                 env, client, kubeDefault, cluster,
                 earlier, raisedSince>>

----------------------------------------------------------------------------
(* all_pods_in_all_ns_are_ok: the fleet scan. *)

(* V1ContainerState: `running` says whether state.running is set;          *)
(* `terminated` holds the reason of state.terminated when that is set.     *)
StateRunning == [running |-> TRUE, terminated |-> None, waiting |-> FALSE]
StateWaiting == [running |-> FALSE, terminated |-> None, waiting |-> TRUE]
StateTerminated(reason) ==
    [running |-> FALSE, terminated |-> Some(reason), waiting |-> FALSE]
ContainerStates ==
    {StateRunning, StateWaiting, StateTerminated("Completed"),
     StateTerminated("Error")}

(* status.phase of a pod that reports no container statuses: not yet      *)
(* scheduled, or failed before a container was created.                    *)
UnreportedPhases == {"Pending", "Failed"}

(* The pods of one namespace with k containers; status.container_statuses  *)
(* is None for a pod that reports none.                                    *)
PodsWith(k) ==
    [namespace : Namespaces,
     phase : IF k = 0 THEN UnreportedPhases ELSE {"Running"},
     container_statuses :
        IF k = 0 THEN {None} ELSE {Some(cs) : cs \in [1..k -> ContainerStates]}]

(* The lists of n pods with at most c containers together. *)
RECURSIVE PodLists(_, _)
PodLists(n, c) ==
    IF n = 0
    THEN {<< >>}
    ELSE UNION {LET rest == PodLists(n - 1, c - k)
                IN  {<<p>> \o r : p \in PodsWith(k), r \in rest} : k \in 0..c}

(* pods.items: each pod with its metadata.name and status.host_ip. *)
Fleet(shape) ==
    [i \in DOMAIN shape |->
        [name |-> <<"fakepod", i>>,
         namespace |-> shape[i].namespace,
         phase |-> shape[i].phase,
         host_ip |-> <<"10.0.0.", i>>,
         container_statuses |-> shape[i].container_statuses]]

Fleets == UNION {{Fleet(sh) : sh \in PodLists(n, MaxContainers)} : n \in 0..MaxFleet}

(* ns_ignore_list: None (the default) or a list of namespace names. *)
IgnoreLists == {None, Some(<< >>), Some(<<"db-catalog">>)}

(* x not in l *)
NotIn(x, l) == \A k \in DOMAIN l : l[k] # x

(* The record of logger.info at lines 200-201 and 204-205: the state it    *)
(* prints is i.status.container_statuses[0].state.                         *)
Diagnostic(pod, ignored) ==
    [host_ip |-> pod.host_ip, namespace |-> pod.namespace, name |-> pod.name,
     state |-> pod.container_statuses[1][1], ignored |-> ignored]

(* A variant that starts from retval = False. *)
ScanStartFalse == [retval |-> "False", log |-> << >>, exc |-> ""]

(* retval = True *)
ScanStart == [retval |-> "True", log |-> << >>, exc |-> ""]

(* Lines 197-205: the containers of pod i, from the j-th on.  With         *)
(* ns_ignore_list None, `not in` raises TypeError.                         *)
RECURSIVE ScanContainers(_, _, _, _)
ScanContainers(pod, ns_ignore_list, j, acc) ==
    IF acc.exc # "" \/ j > Len(pod.container_statuses[1])
    THEN acc
    ELSE IF pod.container_statuses[1][j].running
    THEN ScanContainers(pod, ns_ignore_list, j + 1, acc)
    ELSE IF ns_ignore_list = None
    THEN [acc EXCEPT !.exc = "TypeError"]
    ELSE IF NotIn(pod.namespace, ns_ignore_list[1])
    THEN ScanContainers(pod, ns_ignore_list, j + 1,
            [acc EXCEPT !.log = Append(@, Diagnostic(pod, FALSE)),
                        !.retval = "False"])
    ELSE ScanContainers(pod, ns_ignore_list, j + 1,
            [acc EXCEPT !.log = Append(@, Diagnostic(pod, TRUE))])

(* A variant that counts a pod without container statuses as not good. *)
RECURSIVE ScanPodsCountingUnreported(_, _, _, _)
ScanPodsCountingUnreported(items, ns_ignore_list, i, acc) ==
    IF acc.exc # "" \/ i > Len(items)
    THEN acc
    ELSE IF items[i].container_statuses # None
    THEN ScanPodsCountingUnreported(items, ns_ignore_list, i + 1,
                  ScanContainers(items[i], ns_ignore_list, 1, acc))
    ELSE ScanPodsCountingUnreported(items, ns_ignore_list, i + 1,
                  [acc EXCEPT !.retval = "False"])

(* Lines 195-196: the pods, from the i-th on. *)
RECURSIVE ScanPods(_, _, _, _)
ScanPods(items, ns_ignore_list, i, acc) ==
    IF acc.exc # "" \/ i > Len(items)
    THEN acc
    ELSE IF items[i].container_statuses # None
    THEN ScanPods(items, ns_ignore_list, i + 1,
                  ScanContainers(items[i], ns_ignore_list, 1, acc))
    ELSE ScanPods(items, ns_ignore_list, i + 1, acc)

AllPodsInAllNsAreOk ==
    /\ pc = "idle"
    /\ \E ns_ignore_list \in IgnoreLists, items \in Fleets :
        LET scan == ScanPods(items, ns_ignore_list, 1, ScanStart)
        IN  /\ activity' = "all_pods_in_all_ns_are_ok"
            /\ args' = [NoArgs EXCEPT !.ns_ignore_list = ns_ignore_list]
            /\ calls' = <<ListCall("list_pod_for_all_namespaces", None, None)>>
            /\ ret' = items
            /\ log' = scan.log
            /\ outcome' = IF scan.exc # ""
                          THEN Raise(scan.exc, << >>)
                          ELSE Return(scan.retval)
    /\ pc' = "done"
    /\ UNCHANGED <<consumed, stopped, streamEnd, env, client, kubeDefault,
                   cluster,
                   earlier, raisedSince>>

----------------------------------------------------------------------------
(* The orchestrator: one activity at a time; everything an invocation      *)
(* built is discarded when it has returned or raised.                      *)

----------------------------------------------------------------------------
(* consul/probes.py: check_quorum and get_good_nodes.                      *)

Datacenters == {"dc1", "dc2"}

(* A service name as its pieces, the dots being pieces of their own. *)
ServiceNames == {<<"mysvc">>, <<"com", ".", "mysvc">>}

(* service_name.replace('.', '--') *)
ReplaceDots(service_name) ==
    [i \in DOMAIN service_name |->
        IF service_name[i] = "." THEN "--" ELSE service_name[i]]

(* A health check of a node: its CheckID and Status. *)
Checks == [CheckID : {"serfHealth", "service:mysvc"},
           Status : {"passing", "critical"}]

(* An entry of the health listing, read as node['Node']['Datacenter'] and  *)
(* node.Node['Checks'].                                                    *)
Instances == [Datacenter : Datacenters, Checks : SeqsUpTo(Checks, MaxChecks)]

(* What the entries are: "dict", the decoded JSON that python-consul       *)
(* returns, which has subscripts only; "attrdict", a mapping that also     *)
(* answers attribute access.                                               *)
EntryTypes == {"dict", "attrdict"}

(* What consul_client.health.service(...)[1] can raise. *)
ConsulFaults == {"ValueError", "IndexError", "ConsulException"}

(* A variant that takes any passing check for a sign of health. *)
IsPassingAnyCheck(check) == check.Status = "passing"

(* check['CheckID'] == 'serfHealth' and check['Status'] == 'passing' *)
IsPassingSerfHealth(check) ==
    check.CheckID = "serfHealth" /\ check.Status = "passing"

(* len(heath_checks) > 0 *)
IsGoodNode(node) ==
    \E i \in DOMAIN node.Checks : IsPassingSerfHealth(node.Checks[i])

(* get_good_nodes: the loop of lines 10-14. Evaluating node.Node raises    *)
(* AttributeError on the first entry when the entries are plain dicts.     *)
RECURSIVE GetGoodNodes(_, _, _, _)
GetGoodNodes(type, nodes, i, retval) ==
    IF i > Len(nodes)
    THEN [retval |-> retval, exc |-> ""]
    ELSE IF type = "dict"
    THEN [retval |-> retval, exc |-> "AttributeError"]
    ELSE GetGoodNodes(type, nodes, i + 1,
             IF IsGoodNode(nodes[i]) THEN Append(retval, nodes[i]) ELSE retval)

(* [node for node in nodes if node['Node']['Datacenter'] == dc] *)
RECURSIVE NodesInDc(_, _, _)
NodesInDc(nodes, dc, i) ==
    IF i > Len(nodes)
    THEN << >>
    ELSE IF nodes[i].Datacenter = dc
    THEN <<nodes[i]>> \o NodesInDc(nodes, dc, i + 1)
    ELSE NodesInDc(nodes, dc, i + 1)

(* Lines 25-42 once the listing is there. *)
CheckQuorumResult(type, nodes, dc) ==
    IF nodes = << >>
    THEN Return("False")
    ELSE LET nodes_in_dc == NodesInDc(nodes, dc, 1)
             total_nodes == Len(nodes_in_dc)
             good == GetGoodNodes(type, nodes_in_dc, 1, << >>)
             total_good_nodes == Len(good.retval)
         IN  IF good.exc # ""
             THEN Raise(good.exc, << >>)
             ELSE IF (total_nodes - total_good_nodes) < total_good_nodes
             THEN Return("True")
             ELSE Return("False")

(* except (ValueError, IndexError): pass *)
CheckQuorumFault(e) ==
    IF e \in {"ValueError", "IndexError"}
    THEN Return("False")
    ELSE Raise(e, << >>)

ConsulCall(service_name) ==
    [verb |-> "get", api |-> "health.service", service |-> service_name]

CheckQuorum ==
    /\ pc = "idle"
    /\ \E dc \in Datacenters, service_name \in ServiceNames :
        /\ activity' = "check_quorum"
        /\ args' = [dc |-> dc, service_name |-> service_name]
        /\ calls' = <<ConsulCall(ReplaceDots(service_name))>>
        /\ \/ \E type \in EntryTypes,
                  nodes \in SeqsUpTo(Instances, MaxInstances) :
                /\ ret' = [type |-> type, nodes |-> nodes]
                /\ outcome' = CheckQuorumResult(type, nodes, dc)
           \/ \E e \in ConsulFaults :
                /\ ret' = << >>
                /\ outcome' = CheckQuorumFault(e)
    /\ pc' = "done"
    /\ UNCHANGED <<consumed, stopped, streamEnd, log,
                 env, client, kubeDefault, cluster,
                 earlier, raisedSince>>

----------------------------------------------------------------------------
(* __init__.py: create_k8s_api_client.                                     *)
(* The environment and the secrets are mappings from the keys the function *)
(* looks up to Optional strings (None: the key is absent). The keys        *)
(* KUBERNETES_API_KEY_PREFIX, KUBERNETES_KEY_FILE, KUBERNETES_PASSWORD,    *)
(* KUBERNETES_CA_CERT_FILE, NASA_SECRETS_URL and NASA_TOKEN only fill in   *)
(* fields of the request or of the configuration and are left absent.      *)

Opt(v) == {None, Some(v)}

Envs ==
    [KUBERNETES_CONTEXT : {None, Some("dc1"), Some("undefined")},
     CHAOSTOOLKIT_IN_POD : {None, Some("true"), Some("false")},
     KUBERNETES_HOST : Opt("https://env.example"),
     KUBERNETES_VERIFY_SSL : Opt("true"),
     KUBERNETES_API_KEY : Opt("env-key"),
     KUBERNETES_CERT_FILE : Opt("env.crt"),
     KUBERNETES_USERNAME : Opt("env-user")]

SecretsSets ==
    [KUBERNETES_CONTEXT : Opt("dc2"),
     CHAOSTOOLKIT_IN_POD : Opt("true"),
     KUBERNETES_HOST : Opt("https://secrets.example"),
     KUBERNETES_VERIFY_SSL : {None},
     KUBERNETES_API_KEY : Opt("secrets-key"),
     KUBERNETES_CERT_FILE : Opt("secrets.crt"),
     KUBERNETES_USERNAME : Opt("secrets-user")]

(* The empty environment; also `secrets or {}` for secrets = None. *)
NoEnv ==
    [KUBERNETES_CONTEXT |-> None, CHAOSTOOLKIT_IN_POD |-> None,
     KUBERNETES_HOST |-> None, KUBERNETES_VERIFY_SSL |-> None,
     KUBERNETES_API_KEY |-> None, KUBERNETES_CERT_FILE |-> None,
     KUBERNETES_USERNAME |-> None]

(* lookup(k, d): secrets.get(k, env.get(k, d)) *)
Lookup(secrets, e, k, d) ==
    IF secrets[k] # None THEN secrets[k][1]
    ELSE IF e[k] # None THEN e[k][1]
    ELSE d

(* k in env or k in secrets *)
Given(secrets, e, k) == e[k] # None \/ secrets[k] # None

(* What get_kube_secret_from_production returns: None when the request or  *)
(* the JSON decoding failed, else the decoded document whatever the HTTP   *)
(* status (json.loads precedes raise_for_status): the secret of the        *)
(* cluster or, for instance, the body of an error answer.                  *)
VaultSecret == [url |-> "https://prod.example", token |-> "prod-token"]
VaultError == [errors |-> "permission denied"]
VaultAnswers == {None, Some(VaultSecret), Some(VaultError)}

(* dc is not "undefined": an identity test. The default is the very object *)
(* it is compared with; a value read from the secrets or the environment   *)
(* that differs from it is another object; one that equals it is the same  *)
(* object or not, as the interpreter shares strings.                       *)
IsNotUndefined(secrets, e) ==
    IF ~Given(secrets, e, "KUBERNETES_CONTEXT") THEN {FALSE}
    ELSE IF Lookup(secrets, e, "KUBERNETES_CONTEXT", "undefined") # "undefined"
    THEN {TRUE}
    ELSE BOOLEAN

(* has_local_config_file(): return False *)
HasLocalConfigFile == FALSE

(* The configuration load_incluster_config() makes the default. *)
InClusterConfiguration ==
    [host |-> "https://kubernetes.default.svc", verify_ssl |-> TRUE,
     api_key |-> Some("service-account-token"), cert_file |-> None,
     username |-> None]

(* Lines 140-147: the configuration built from the production secrets. *)
VaultConfiguration(prod_secrets) ==
    [host |-> prod_secrets.url, verify_ssl |-> FALSE,
     api_key |-> Some(prod_secrets.token), cert_file |-> None,
     username |-> None]

(* Lines 157-175: the configuration built from the explicit material. *)
ExplicitConfiguration(secrets, e) ==
    LET base == [host |-> Lookup(secrets, e, "KUBERNETES_HOST",
                                 "http://localhost"),
                 verify_ssl |-> Given(secrets, e, "KUBERNETES_VERIFY_SSL"),
                 api_key |-> None, cert_file |-> None, username |-> None]
    IN  IF Given(secrets, e, "KUBERNETES_API_KEY")
        THEN [base EXCEPT !.api_key =
                  Some(Lookup(secrets, e, "KUBERNETES_API_KEY", ""))]
        ELSE IF Given(secrets, e, "KUBERNETES_CERT_FILE")
        THEN [base EXCEPT !.cert_file =
                  Some(Lookup(secrets, e, "KUBERNETES_CERT_FILE", ""))]
        ELSE IF Given(secrets, e, "KUBERNETES_USERNAME")
        THEN [base EXCEPT !.username =
                  Some(Lookup(secrets, e, "KUBERNETES_USERNAME", ""))]
        ELSE base

ApiClient(source, configuration) ==
    Some([source |-> source, configuration |-> configuration])

(* A variant that tests the pod-context flag before the production secrets. *)
ResolveClientFlagFirst(secrets, e, prod_secrets) ==
    IF e.CHAOSTOOLKIT_IN_POD = Some("true")
    THEN [client |-> ApiClient("in-cluster", InClusterConfiguration),
          outcome |-> Return("ApiClient"), loaded |-> TRUE]
    ELSE IF prod_secrets # None
    THEN IF "url" \in DOMAIN prod_secrets[1]
         THEN [client |-> ApiClient("vault", VaultConfiguration(prod_secrets[1])),
               outcome |-> Return("ApiClient"), loaded |-> FALSE]
         ELSE [client |-> None, outcome |-> Raise("KeyError", <<"url">>),
               loaded |-> FALSE]
    ELSE [client |-> ApiClient("explicit", ExplicitConfiguration(secrets, e)),
          outcome |-> Return("ApiClient"), loaded |-> FALSE]

(* Lines 140-177: the branches, in the order of the code. `loaded` tells   *)
(* whether load_incluster_config() ran.                                    *)
ResolveClient(secrets, e, prod_secrets) ==
    IF prod_secrets # None
    THEN IF "url" \in DOMAIN prod_secrets[1]
         THEN [client |-> ApiClient("vault", VaultConfiguration(prod_secrets[1])),
               outcome |-> Return("ApiClient"), loaded |-> FALSE]
         ELSE [client |-> None, outcome |-> Raise("KeyError", <<"url">>),
               loaded |-> FALSE]
    ELSE IF HasLocalConfigFile
    THEN [client |-> ApiClient("kubeconfig", InClusterConfiguration),
          outcome |-> Return("ApiClient"), loaded |-> FALSE]
    ELSE IF e.CHAOSTOOLKIT_IN_POD = Some("true")
    THEN [client |-> ApiClient("in-cluster", InClusterConfiguration),
          outcome |-> Return("ApiClient"), loaded |-> TRUE]
    ELSE [client |-> ApiClient("explicit", ExplicitConfiguration(secrets, e)),
          outcome |-> Return("ApiClient"), loaded |-> FALSE]

VaultCall(dc) == [verb |-> "get", api |-> "vault", context |-> dc]

CreateK8sApiClient ==
    /\ pc = "idle"
    /\ \E secrets \in SecretsSets, e \in Envs :
       \E asks \in IsNotUndefined(secrets, e) :
       \E prod_secrets \in IF asks THEN VaultAnswers ELSE {None} :
          LET r == ResolveClient(secrets, e, prod_secrets)
          IN  /\ activity' = "create_k8s_api_client"
              /\ args' = [secrets |-> secrets]
              /\ env' = e
              /\ calls' = IF asks
                          THEN <<VaultCall(Lookup(secrets, e,
                                     "KUBERNETES_CONTEXT", "undefined"))>>
                          ELSE << >>
              /\ ret' = prod_secrets
              /\ client' = r.client
              /\ outcome' = r.outcome
              /\ kubeDefault' = IF r.loaded THEN Some(InClusterConfiguration)
                                ELSE kubeDefault
    /\ pc' = "done"
    /\ UNCHANGED <<consumed, stopped, streamEnd, log, cluster,
                   earlier, raisedSince>>

----------------------------------------------------------------------------
(* actions.py: kill_microservice and kill_microservice_by_label.           *)

Kinds == {"deployment", "replica_set", "pod"}

(* The labels a resource can carry, as key and value. *)
Labels == {<<"name", "mysvc">>, <<"app", "my-super-app">>}

ResourceNames == {"a", "b"}

(* A resource of the cluster: metadata.name, metadata.namespace, its label. *)
Resources == [kind : Kinds, ns : Namespaces, name : ResourceNames, label : Labels]

(* The label a selector, as the API receives it, selects. A selector whose *)
(* placeholder was not substituted asks for the value "{name}", that no    *)
(* resource carries.                                                       *)
SelectedLabel(selector) ==
    IF Len(selector) = 3 THEN <<"name", selector[2]>> ELSE <<"app", "my-super-app">>

(* ret.items of a list call on the cluster c: in namespace ns[1], or in    *)
(* all namespaces when ns is None.                                         *)
Selected(c, kind, ns, selector) ==
    {r \in c : /\ r.kind = kind
               /\ ns = None \/ r.ns = ns[1]
               /\ r.label = SelectedLabel(selector)}

(* The items of a result set, in the order the API lists them. *)
RECURSIVE Items(_)
Items(S) ==
    IF S = {} THEN << >>
    ELSE LET r == CHOOSE x \in S : TRUE IN <<r>> \o Items(S \ {r})

DeleteCall(api, ns, name) ==
    [verb |-> "delete", api |-> api, ns |-> ns, name |-> name]

ListApi(kind, ns) ==
    IF ns = None THEN "list_" \o kind \o "_for_all_namespaces"
    ELSE "list_namespaced_" \o kind

DeleteApi(kind) == "delete_namespaced_" \o kind

(* for x in ret.items: v1.delete_namespaced_<kind>(name=x.metadata.name,   *)
(* namespace=...)                                                          *)
Deletions(kind, items) ==
    [i \in DOMAIN items |->
        DeleteCall(DeleteApi(kind), items[i].ns, items[i].name)]

(* One stage of the kill: list the resources of a kind, delete each. *)
Stage(c, kind, ns, selector) ==
    <<ListCall(ListApi(kind, ns), IF ns = None THEN None ELSE ns[1],
               Some(selector))>>
    \o Deletions(kind, Items(Selected(c, kind, ns, selector)))

(* What the API errors of a call can be. *)
ApiFaults == {"ApiException", "MaxRetryError"}

(* The cluster after the calls of `done` were served. *)
RECURSIVE Served(_, _, _)
Served(c, done, i) ==
    IF i > Len(done) THEN c
    ELSE IF done[i].verb = "delete"
    THEN Served({r \in c : ~(/\ DeleteApi(r.kind) = done[i].api
                             /\ r.ns = done[i].ns
                             /\ r.name = done[i].name)}, done, i + 1)
    ELSE Served(c, done, i + 1)

(* A variant that deals with the pods before the replica sets. *)
KillMicroservicePlanPodsFirst(c, ns, selector) ==
    LET deployments == Stage(c, "deployment", Some(ns), selector)
        c1 == Served(c, deployments, 1)
        pods == Stage(c1, "pod", Some(ns), selector)
        c2 == Served(c1, pods, 1)
        replica_sets == Stage(c2, "replica_set", Some(ns), selector)
    IN  deployments \o pods \o replica_sets

(* kill_microservice, lines 59-93: the three stages, in this order. *)
KillMicroservicePlan(c, ns, selector) ==
    LET deployments == Stage(c, "deployment", Some(ns), selector)
        c1 == Served(c, deployments, 1)
        replica_sets == Stage(c1, "replica_set", Some(ns), selector)
        c2 == Served(c1, replica_sets, 1)
        pods == Stage(c2, "pod", Some(ns), selector)
    IN  deployments \o replica_sets \o pods

(* A variant that deals with the replica sets and the pods whether or not  *)
(* a deployment matched.                                                   *)
KillMicroserviceByLabelPlanUngated(c, selector) ==
    LET deployments == Stage(c, "deployment", None, selector)
        c1 == Served(c, deployments, 1)
        replica_sets == Stage(c1, "replica_set", None, selector)
        c2 == Served(c1, replica_sets, 1)
        pods == Stage(c2, "pod", None, selector)
    IN  deployments \o replica_sets \o pods

(* kill_microservice_by_label, lines 111-144: the replica sets and the     *)
(* pods are dealt with inside `if ret.items:`.                             *)
KillMicroserviceByLabelPlan(c, selector) ==
    LET deployments == Stage(c, "deployment", None, selector)
        c1 == Served(c, deployments, 1)
        replica_sets == Stage(c1, "replica_set", None, selector)
        c2 == Served(c1, replica_sets, 1)
        pods == Stage(c2, "pod", None, selector)
    IN  IF Selected(c, "deployment", None, selector) = {}
        THEN deployments
        ELSE deployments \o replica_sets \o pods

(* The run of a plan: all its calls are served (failing = 0), or the call  *)
(* number `failing` raises and the later ones are never issued.            *)
Issued(plan, failing) ==
    IF failing = 0 THEN plan ELSE SubSeq(plan, 1, failing)
ServedBy(plan, failing) ==
    IF failing = 0 THEN plan ELSE SubSeq(plan, 1, failing - 1)

KillMicroservice ==
    /\ pc = "idle"
    /\ \E name \in Names, ns \in Namespaces, sel \in Selectors :
        LET plan == KillMicroservicePlan(cluster, ns, Format(sel, name))
        IN  \E failing \in 0..Len(plan), fault \in ApiFaults :
            /\ failing = 0 => fault = "ApiException"
            /\ activity' = "kill_microservice"
            /\ args' = [NoArgs EXCEPT !.name = name, !.ns = ns,
                                      !.label_selector = sel]
            /\ calls' = Issued(plan, failing)
            /\ cluster' = Served(cluster, ServedBy(plan, failing), 1)
            /\ outcome' = IF failing = 0 THEN Return("None")
                          ELSE Raise(fault, << >>)
    /\ ret' = << >>
    /\ pc' = "done"
    /\ UNCHANGED <<consumed, stopped, streamEnd, log, env, client, kubeDefault,
                   earlier, raisedSince>>

KillMicroserviceByLabel ==
    /\ pc = "idle"
    /\ \E sel \in Selectors :
        LET plan == KillMicroserviceByLabelPlan(cluster, sel)
        IN  \E failing \in 0..Len(plan), fault \in ApiFaults :
            /\ failing = 0 => fault = "ApiException"
            /\ activity' = "kill_microservice_by_label"
            /\ args' = [NoArgs EXCEPT !.label_selector = sel]
            /\ calls' = Issued(plan, failing)
            /\ cluster' = Served(cluster, ServedBy(plan, failing), 1)
            /\ outcome' = IF failing = 0 \/ fault = "ApiException"
                          THEN Return("None")
                          ELSE Raise(fault, << >>)
    /\ ret' = << >>
    /\ pc' = "done"
    /\ UNCHANGED <<consumed, stopped, streamEnd, log, env, client, kubeDefault,
                   earlier, raisedSince>>

(* The cluster's own life while probes run: the deployment of the          *)
(* microservice is rolled out in a namespace.                              *)
DeploymentRolledOut ==
    /\ pc = "idle"
    /\ \E ns \in Namespaces :
        LET d == [kind |-> "deployment", ns |-> ns, name |-> "a",
                  label |-> <<"name", "mysvc">>]
        IN  /\ d \notin cluster
            /\ cluster' = cluster \cup {d}
    /\ UNCHANGED <<pc, activity, args, ret, calls, outcome, consumed, stopped,
                   streamEnd, log, env, client, kubeDefault,
                   earlier, raisedSince>>

(* The cluster's own life: a resource appears (a deployment is rolled out, *)
(* its controller creates a replica set or a pod). The kind, the namespace *)
(* and the name identify a resource.                                       *)
ResourceAppears ==
    /\ pc = "idle"
    /\ Cardinality(cluster) < MaxResources
    /\ \E r \in Resources :
        /\ \A x \in cluster :
               ~(x.kind = r.kind /\ x.ns = r.ns /\ x.name = r.name)
        /\ cluster' = cluster \cup {r}
    /\ UNCHANGED <<pc, activity, args, ret, calls, outcome, consumed, stopped,
                   streamEnd, log, env, client, kubeDefault,
                   earlier, raisedSince>>

----------------------------------------------------------------------------
(* actions.py: get_random_namespace and deploy_objects_in_random_namespace. *)

(* The namespaces a cluster can hold; ret.items of list_namespace names    *)
(* each once.                                                              *)
ClusterNamespaces == Namespaces \cup {"kube-system"}
NamespaceList(items) ==
    \A i, j \in DOMAIN items : items[i] = items[j] => i = j

(* configuration: None, a dictionary without the key "ns-ignore-list", or  *)
(* a dictionary that holds the list.                                       *)
Configurations ==
    {None, Some(None), Some(Some(<<"kube-system">>)),
     Some(Some(<<"kube-system", "default">>)),
     Some(Some(<<"default", "db-catalog", "kube-system">>))}

(* Lines 185-187. *)
NsIgnoreList(configuration) ==
    IF configuration = None THEN << >>
    ELSE IF configuration[1] = None THEN << >>
    ELSE configuration[1][1]

(* A variant that keeps the ignored namespaces. *)
RECURSIVE CleanNsKeepingIgnored(_, _, _)
CleanNsKeepingIgnored(items, ns_ignore_list, i) ==
    IF i > Len(items) THEN << >>
    ELSE <<items[i]>> \o CleanNsKeepingIgnored(items, ns_ignore_list, i + 1)

(* Lines 194-195: the namespaces whose name is not in the ignore list. *)
RECURSIVE CleanNs(_, _, _)
CleanNs(items, ns_ignore_list, i) ==
    IF i > Len(items) THEN << >>
    ELSE IF NotIn(items[i], ns_ignore_list)
    THEN <<items[i]>> \o CleanNs(items, ns_ignore_list, i + 1)
    ELSE CleanNs(items, ns_ignore_list, i + 1)

(* Lines 192, 197-199: what random.choice can return, or None. *)
RandomNamespaces(items, configuration) ==
    LET clean_ns == CleanNs(items, NsIgnoreList(configuration), 1)
    IN  IF Len(clean_ns) > 0
        THEN {Some(clean_ns[k]) : k \in DOMAIN clean_ns}
        ELSE {None}

GetRandomNamespace ==
    /\ pc = "idle"
    /\ \E items \in SeqsUpTo(ClusterNamespaces, MaxNamespaces),
          configuration \in Configurations :
        /\ NamespaceList(items)
        /\ \E namespace \in RandomNamespaces(items, configuration) :
            /\ activity' = "get_random_namespace"
            /\ args' = [configuration |-> configuration]
            /\ calls' = <<ListCall("list_namespace", None, None)>>
            /\ ret' = items
            /\ outcome' = Return(namespace)
    /\ pc' = "done"
    /\ UNCHANGED <<consumed, stopped, streamEnd, log, env, client, kubeDefault,
                   cluster, earlier, raisedSince>>

(* The objects of a template: apiVersion, kind and metadata.name. *)
Objects ==
    {[apiVersion |-> "apps/v1beta1", kind |-> "Deployment", name |-> "a"],
     [apiVersion |-> "v1", kind |-> "Pod", name |-> "a"],
     [apiVersion |-> "v1", kind |-> "Deployment", name |-> "a"],
     [apiVersion |-> "apps/v1beta1", kind |-> "Service", name |-> "a"],
     [apiVersion |-> "batch/v1", kind |-> "Job", name |-> "a"]}

(* spec_path, as the pieces os.path.splitext cuts it into. *)
SpecPaths ==
    {<<"spec", ".json">>, <<"spec", ".yaml">>, <<"spec", ".yaml", ".jinja">>,
     <<"spec", ".txt">>}

(* os.path.splitext: the path without its last extension, and that one. *)
SplitExt(path) == [p |-> SubSeq(path, 1, Len(path) - 1), ext |-> path[Len(path)]]

(* What a file of that path holds: a JSON file one object (a dict), a YAML *)
(* file a stream of documents.                                             *)
Templates(path) ==
    LET ext == IF SplitExt(path).ext = ".jinja"
               THEN SplitExt(SplitExt(path).p).ext ELSE SplitExt(path).ext
    IN  IF ext = ".json" THEN {<<o>> : o \in Objects}
        ELSE IF ext = ".yaml" THEN SeqsUpTo(Objects, MaxObjects)
        ELSE {<< >>}

CreateCall(api, ns, name) ==
    [verb |-> "create", api |-> api, ns |-> ns, name |-> name]

CannotProcessMsg(path) == <<"cannot process ">> \o path

(* The state of a deployment under way: the calls issued, the cluster,     *)
(* the warnings logged, the exception raised.                              *)
DeployStart(c) == [calls |-> << >>, cluster |-> c, log |-> << >>, exc |-> ""]

(* create_namespaced_<kind>(ns, body=obj): the API refuses to create what  *)
(* exists already.                                                         *)
Create(acc, kind, ns, obj) ==
    LET call == CreateCall("create_namespaced_" \o kind, ns, obj.name)
    IN  IF \E r \in acc.cluster : r.kind = kind /\ r.ns = ns /\ r.name = obj.name
        THEN [acc EXCEPT !.calls = Append(@, call), !.exc = "ApiException"]
        ELSE [acc EXCEPT !.calls = Append(@, call),
                         !.cluster = @ \cup {[kind |-> kind, ns |-> ns,
                                              name |-> obj.name,
                                              label |-> <<"app", "my-super-app">>]}]

(* deploy_single_obj, lines 202-221. AppsV1beta1Api has no                 *)
(* create_namespaced_pod and CoreV1Api no create_namespaced_deployment.    *)
DeploySingleObj(acc, ns, obj) ==
    IF obj.apiVersion \notin {"apps/v1beta1", "v1"}
    THEN [acc EXCEPT !.log = Append(@, <<"Unable to create api client for ",
                                         obj.apiVersion>>)]
    ELSE IF obj.kind = "Deployment"
    THEN IF obj.apiVersion = "apps/v1beta1"
         THEN Create(acc, "deployment", ns, obj)
         ELSE [acc EXCEPT !.exc = "AttributeError"]
    ELSE IF obj.kind = "Pod"
    THEN IF obj.apiVersion = "v1"
         THEN Create(acc, "pod", ns, obj)
         ELSE [acc EXCEPT !.exc = "AttributeError"]
    ELSE [acc EXCEPT !.log = Append(@, <<"Unable to create object">>)]

(* deploy_generic_template, lines 224-229: the objects from the i-th on. *)
RECURSIVE DeployGenericTemplate(_, _, _, _)
DeployGenericTemplate(acc, ns, template, i) ==
    IF acc.exc # "" \/ i > Len(template) THEN acc
    ELSE DeployGenericTemplate(DeploySingleObj(acc, ns, template[i]), ns,
                               template, i + 1)

(* deploy_objects_in_namespace, lines 258-276. *)
DeployObjectsInNamespace(c, path, template, ns) ==
    LET first == SplitExt(path)
        ext == IF first.ext = ".jinja" THEN SplitExt(first.p).ext ELSE first.ext
    IN  IF ext \in {".json", ".yml", ".yaml"}
        THEN DeployGenericTemplate(DeployStart(c), ns, template, 1)
        ELSE [DeployStart(c) EXCEPT !.exc = "FailedActivity"]

(* Lines 287-290: ns.metadata.name of None raises AttributeError before    *)
(* anything is read or deployed.                                           *)
DeployInRandomNamespace(c, path, template, namespace) ==
    IF namespace = None
    THEN [DeployStart(c) EXCEPT !.exc = "AttributeError"]
    ELSE DeployObjectsInNamespace(c, path, template, namespace[1])

DeployObjectsInRandomNamespace ==
    /\ pc = "idle"
    /\ \E items \in SeqsUpTo(ClusterNamespaces, MaxNamespaces),
          configuration \in Configurations, spec_path \in SpecPaths :
        /\ NamespaceList(items)
        /\ \E namespace \in RandomNamespaces(items, configuration),
              template \in Templates(spec_path) :
            LET run == DeployInRandomNamespace(cluster, spec_path, template,
                                               namespace)
            IN  /\ activity' = "deploy_objects_in_random_namespace"
                /\ args' = [configuration |-> configuration,
                            spec_path |-> spec_path]
                /\ calls' = <<ListCall("list_namespace", None, None)>>
                            \o run.calls
                /\ ret' = items
                /\ log' = run.log
                /\ cluster' = run.cluster
                /\ outcome' =
                       IF run.exc = "" THEN Return("None")
                       ELSE IF run.exc = "FailedActivity"
                       THEN FailedActivity(CannotProcessMsg(spec_path))
                       ELSE Raise(run.exc, << >>)
    /\ pc' = "done"
    /\ UNCHANGED <<consumed, stopped, streamEnd, env, client, kubeDefault,
                   earlier, raisedSince>>

----------------------------------------------------------------------------
(* node/probes.py: get_active_nodes, the node taint filter. Its code is    *)
(* known by its tests and by the specification of the repository only.     *)

(* The taints of the tests: key, value, effect. *)
TaintFake == [key |-> "faketaint", value |-> None, effect |-> "NoSchedule"]
TaintSpot == [key |-> "dedicated", value |-> Some("spot"), effect |-> "NoSchedule"]
TaintMaster ==
    [key |-> "node-role.kubernetes.io/master", value |-> None,
     effect |-> "NoSchedule"]
Taints == {TaintFake, TaintSpot, TaintMaster}

(* node.spec.taints *)
NodeTaints == SeqsUpTo(Taints, MaxTaints)

(* The node list of the API for the taints t of its nodes: the nodes are   *)
(* named by their position.                                                *)
NodeList(t) == [i \in DOMAIN t |-> [name |-> i, taints |-> t[i]]]

(* taints_ignore_list: none supplied, or the lists of the tests. *)
TaintIgnoreLists == {None, Some(<<TaintMaster, TaintSpot>>), Some(<<TaintSpot>>)}

TaintIgnored(taint, ignore_list) ==
    \E k \in DOMAIN ignore_list : ignore_list[k] = taint

(* A variant for which one ignored taint makes the whole node pass. *)
IsActiveByAnyTaint(node, taints_ignore_list) ==
    \/ taints_ignore_list = None
    \/ node.taints = << >>
    \/ \E j \in DOMAIN node.taints :
           TaintIgnored(node.taints[j], taints_ignore_list[1])

(* A node is Active when no ignore list is supplied, or when each of its   *)
(* taints is in the ignore list (a node without taints always is).         *)
IsActive(node, taints_ignore_list) ==
    \/ taints_ignore_list = None
    \/ \A j \in DOMAIN node.taints :
           TaintIgnored(node.taints[j], taints_ignore_list[1])

(* The items of the response: the Active nodes, in the order of the list. *)
RECURSIVE ActiveNodes(_, _, _)
ActiveNodes(nodes, taints_ignore_list, i) ==
    IF i > Len(nodes) THEN << >>
    ELSE IF IsActive(nodes[i], taints_ignore_list)
    THEN <<nodes[i]>> \o ActiveNodes(nodes, taints_ignore_list, i + 1)
    ELSE ActiveNodes(nodes, taints_ignore_list, i + 1)

GetActiveNodes ==
    /\ pc = "idle"
    /\ \E t \in SeqsUpTo(NodeTaints, MaxNodes),
          taints_ignore_list \in TaintIgnoreLists :
        /\ activity' = "get_active_nodes"
        /\ args' = [taints_ignore_list |-> taints_ignore_list]
        /\ calls' = <<ListCall("list_node", None, None)>>
        /\ ret' = NodeList(t)
        /\ outcome' = Return(ActiveNodes(NodeList(t), taints_ignore_list, 1))
    /\ pc' = "done"
    /\ UNCHANGED <<consumed, stopped, streamEnd, log, env, client, kubeDefault,
                   cluster,
                   earlier, raisedSince>>

----------------------------------------------------------------------------
(* node/probes.py: get_tainted_nodes, the node taint query. Its code is    *)
(* known by its tests and by the specification of the repository only.     *)

(* The taint the tests ask for: it shares key and effect with TaintSpot. *)
TaintSpecial ==
    [key |-> "dedicated", value |-> Some("special"), effect |-> "NoSchedule"]

(* node.spec.taints of the nodes of the query. *)
QueriedTaints == {TaintFake, TaintSpot, TaintSpecial}

(* The triples asked for: key, value and effect are chosen one by one. *)
TaintKeys == {"dedicated", "faketaint"}
TaintValues == {None, Some("special"), Some("spot")}
TaintEffects == {"NoSchedule", "NoExecute"}

(* A variant that compares key and effect, and not the value. *)
TaintMatchesKeyAndEffect(taint, key, value, effect) ==
    /\ taint.key = key
    /\ taint.effect = effect

(* A taint matches when it equals the whole triple. *)
TaintMatches(taint, key, value, effect) ==
    /\ taint.key = key
    /\ taint.value = value
    /\ taint.effect = effect

IsTainted(node, key, value, effect) ==
    \E j \in DOMAIN node.taints :
        TaintMatches(node.taints[j], key, value, effect)

(* The nodes returned: the matching nodes, in the order of the list. *)
RECURSIVE TaintedNodes(_, _, _, _, _)
TaintedNodes(nodes, key, value, effect, i) ==
    IF i > Len(nodes) THEN << >>
    ELSE IF IsTainted(nodes[i], key, value, effect)
    THEN <<nodes[i]>> \o TaintedNodes(nodes, key, value, effect, i + 1)
    ELSE TaintedNodes(nodes, key, value, effect, i + 1)

GetTaintedNodes ==
    /\ pc = "idle"
    /\ \E t \in SeqsUpTo(SeqsUpTo(QueriedTaints, MaxTaints), MaxNodes),
          key \in TaintKeys, value \in TaintValues, effect \in TaintEffects :
        /\ activity' = "get_tainted_nodes"
        /\ args' = [key |-> key, value |-> value, effect |-> effect]
        /\ calls' = <<ListCall("list_node", None, None)>>
        /\ ret' = NodeList(t)
        /\ outcome' = Return(TaintedNodes(NodeList(t), key, value, effect, 1))
    /\ pc' = "done"
    /\ UNCHANGED <<consumed, stopped, streamEnd, log, env, client, kubeDefault,
                   cluster, earlier, raisedSince>>

----------------------------------------------------------------------------
(* node/probes.py: have_new_node, the node recency probe. Its code is      *)
(* known by its test and by the specification of the repository only.      *)

(* The age limit and the ages of the test, in seconds. *)
AgeLimit == 600
OldAge == 1000
NewAge == 10
Ages == {NewAge, AgeLimit - 1, AgeLimit, OldAge}
AgeLimits == {AgeLimit, OldAge}

(* datetime.now() of the invocation, in seconds. *)
Now == OldAge + AgeLimit

(* The control-plane taints, ignored by the probe without being asked. *)
ControlPlaneTaints == Some(<<TaintMaster>>)

(* The node list of the API for the taints t and the ages a of its nodes:  *)
(* a node carries its creation timestamp.                                  *)
AgedNodeList(t, a) ==
    [i \in DOMAIN t |->
        [name |-> i, taints |-> t[i], creation_timestamp |-> Now - a[i]]]

(* A variant that counts a node exactly as old as the limit as new. *)
IsNewOrAtLimit(node, age_limit) == Now - node.creation_timestamp <= age_limit

(* A node is new when its age is strictly less than the limit. *)
IsNew(node, age_limit) == Now - node.creation_timestamp < age_limit

HaveNewNodeResult(nodes, age_limit) ==
    LET active == ActiveNodes(nodes, ControlPlaneTaints, 1)
    IN  IF \E k \in DOMAIN active : IsNew(active[k], age_limit)
        THEN "True" ELSE "False"

HaveNewNode ==
    /\ pc = "idle"
    /\ \E t \in SeqsUpTo(SeqsUpTo({TaintMaster, TaintFake}, MaxTaints), MaxNodes),
          age_limit \in AgeLimits :
        \E a \in [DOMAIN t -> Ages] :
            /\ activity' = "have_new_node"
            /\ args' = [age_limit |-> age_limit]
            /\ calls' = <<ListCall("list_node", None, None)>>
            /\ ret' = AgedNodeList(t, a)
            /\ outcome' = Return(HaveNewNodeResult(AgedNodeList(t, a), age_limit))
    /\ pc' = "done"
    /\ UNCHANGED <<consumed, stopped, streamEnd, log, env, client, kubeDefault,
                   cluster, earlier, raisedSince>>

----------------------------------------------------------------------------
(* The history of a session of invocations. One completed invocation, with *)
(* the arguments it got, the result set it listed, the calls it issued and *)
(* how it ended, is put on record; the invocations that follow can be      *)
(* compared with it. The record is taken of invocations on the default     *)
(* namespace, name and selector that listed no item, or one pod or         *)
(* service.                                                                *)

OnRecord ==
    [activity |-> activity, args |-> args, ret |-> ret, calls |-> calls,
     log |-> log, outcome |-> outcome]

Recordable ==
    /\ args.name \in {"", "mysvc"}
    /\ args.ns \in {"", "default"}
    /\ args.label_selector \in {<< >>, DefaultSelector}
    /\ args.ns_ignore_list = None
    /\ \/ ret = << >>
       \/ /\ Len(ret) = 1
          /\ activity \in {"all_microservices_healthy",
                            "microservice_is_not_available",
                            "service_endpoint_is_initialized"}

Remember ==
    /\ pc = "done"
    /\ earlier = None
    /\ Recordable
    /\ earlier' = Some(OnRecord)
    /\ UNCHANGED <<pc, activity, args, ret, calls, outcome, consumed, stopped,
                   streamEnd, log, env, client, kubeDefault, cluster,
                   raisedSince>>

Init ==
    /\ pc = "idle"
    /\ activity = ""
    /\ args = NoArgs
    /\ ret = << >>
    /\ calls = << >>
    /\ outcome = NoOutcome
    /\ consumed = << >>
    /\ stopped = FALSE
    /\ streamEnd = ""
    /\ log = << >>
    /\ env = NoEnv
    /\ client = None
    /\ kubeDefault = None
    /\ cluster = {}
    /\ earlier = None
    /\ raisedSince = FALSE

NextActivity ==
    /\ pc = "done"
    /\ pc' = "idle"
    /\ activity' = ""
    /\ args' = NoArgs
    /\ ret' = << >>
    /\ calls' = << >>
    /\ outcome' = NoOutcome
    /\ consumed' = << >>
    /\ stopped' = FALSE
    /\ streamEnd' = ""
    /\ log' = << >>
    /\ env' = NoEnv
    /\ client' = None
    /\ raisedSince' = (raisedSince \/ (earlier # None /\ outcome.kind = "raise"))
    /\ UNCHANGED <<kubeDefault, cluster, earlier>>

Next ==
    \/ AllMicroservicesHealthy
    \/ MicroserviceAvailableAndHealthy
    \/ MicroserviceIsNotAvailable
    \/ ServiceEndpointIsInitialized
    \/ NextActivity

Spec == Init /\ [][Next]_vars

NextWatch ==
    \/ WatchStart
    \/ WatchEvent
    \/ WatchReadTimeout
    \/ WatchFault
    \/ WatchExhausted
    \/ NextActivity

SpecWatch == Init /\ [][NextWatch]_vars

NextFleet ==
    \/ AllPodsInAllNsAreOk
    \/ NextActivity

SpecFleet == Init /\ [][NextFleet]_vars

NextConsul ==
    \/ CheckQuorum
    \/ NextActivity

SpecConsul == Init /\ [][NextConsul]_vars

NextClient ==
    \/ CreateK8sApiClient
    \/ NextActivity

SpecClient == Init /\ [][NextClient]_vars

NextActions ==
    \/ KillMicroservice
    \/ KillMicroserviceByLabel
    \/ ResourceAppears
    \/ NextActivity

SpecActions == Init /\ [][NextActions]_vars

NextDeploy ==
    \/ GetRandomNamespace
    \/ DeployObjectsInRandomNamespace
    \/ NextActivity

SpecDeploy == Init /\ [][NextDeploy]_vars

NextNodes ==
    \/ GetActiveNodes
    \/ GetTaintedNodes
    \/ HaveNewNode
    \/ NextActivity

SpecNodes == Init /\ [][NextNodes]_vars

(* A session of invocations of the list probes and of the fleet scan. *)
NextSession ==
    \/ AllMicroservicesHealthy
    \/ MicroserviceAvailableAndHealthy
    \/ MicroserviceIsNotAvailable
    \/ ServiceEndpointIsInitialized
    \/ AllPodsInAllNsAreOk
    \/ Remember
    \/ NextActivity

SpecSession == Init /\ [][NextSession]_vars

(* The probes of probes.py, on a cluster that lives. *)
NextProbes ==
    \/ AllMicroservicesHealthy
    \/ MicroserviceAvailableAndHealthy
    \/ MicroserviceIsNotAvailable
    \/ ServiceEndpointIsInitialized
    \/ WatchStart
    \/ WatchEvent
    \/ WatchReadTimeout
    \/ WatchFault
    \/ WatchExhausted
    \/ AllPodsInAllNsAreOk
    \/ DeploymentRolledOut
    \/ NextActivity

SpecProbes == Init /\ [][NextProbes]_vars

----------------------------------------------------------------------------
(* The claims. *)

Done(a) == pc = "done" /\ activity = a

RaisedFailedActivity(m) ==
    outcome.kind = "raise" /\ outcome.exc = "FailedActivity" /\ outcome.msg = m

ReturnedTrue == outcome.kind = "return" /\ outcome.value = "True"

Watching == activity = "deployment_is_not_fully_available"

(* The event is one with ready_replicas != spec.replicas. *)
Qualifying(ev) == ev.ready_replicas # <<ev.replicas>>

RaisedTimeout ==
    RaisedFailedActivity(<<"microservice '", args.name,
                           "' failed to stop running within ", args.timeout, "s">>)

(* C1: the first received event with ready_replicas != spec.replicas stops *)
(* the watch and makes the probe return True; events before it, with       *)
(* ready_replicas == spec.replicas, leave the watch running, and no event  *)
(* is consumed after the qualifying one.                                   *)
C1_FirstQualifyingEventConverges ==
    Watching =>
        /\ \A i \in DOMAIN consumed :
              IF Qualifying(consumed[i])
              THEN /\ i = Len(consumed)
                   /\ pc = "done" /\ stopped /\ ReturnedTrue
              ELSE i = Len(consumed) /\ streamEnd = "" => pc = "watching"
        /\ stopped \/ ReturnedTrue =>
              consumed # << >> /\ Qualifying(consumed[Len(consumed)])

(* A fully ready event was received first, then one whose ready_replicas   *)
(* is missing: the watch stopped there with True.                          *)
C1_Witness ==
    /\ Watching /\ pc = "done"
    /\ Len(consumed) = 2
    /\ consumed[1].ready_replicas = <<consumed[1].replicas>>
    /\ consumed[2].ready_replicas = << >>
    /\ stopped /\ ReturnedTrue

(* C2: a watch session ends in exactly one of Converged (True returned     *)
(* after a qualifying event), TimedOut (the timeout failure raised) or     *)
(* TransportError (the fault propagated); it never returns without having  *)
(* observed a qualifying event.                                            *)
C2_ThreeTerminalOutcomes ==
    (Watching /\ pc = "done") =>
        \/ /\ ReturnedTrue
           /\ \E i \in DOMAIN consumed : Qualifying(consumed[i])
        \/ RaisedTimeout
        \/ outcome.kind = "raise" /\ outcome.exc \in TransportFaults

(* C3: only a read timeout of the stream becomes the activity failure      *)
(* "... failed to stop running within {t}s"; any other fault of the stream *)
(* ends the watch, reaches the caller unchanged (never as a timeout, never *)
(* swallowed), and the stream is opened once only.                         *)
C3_TimeoutDistinctFromFault ==
    (Watching /\ pc = "done") =>
        /\ RaisedTimeout <=> streamEnd = "ReadTimeoutError"
        /\ streamEnd \in {"ApiException", "ProtocolError", "MaxRetryError"} =>
              /\ outcome.kind = "raise"
              /\ outcome.exc = streamEnd
              /\ outcome.exc # "FailedActivity"
        /\ Cardinality({k \in DOMAIN calls : calls[k].verb = "watch"}) = 1
        /\ Len(calls) = 1

(* A transport fault after a fully ready event has reached the caller. *)
C3_Witness ==
    /\ Watching /\ pc = "done"
    /\ Len(consumed) = 1
    /\ streamEnd = "ProtocolError"
    /\ outcome.kind = "raise" /\ outcome.exc = "ProtocolError"

(* C4: on a non-empty result set microservice_available_and_healthy        *)
(* returns True if and only if every deployment has available_replicas     *)
(* exactly equal to spec.replicas (more available than desired is          *)
(* unhealthy), and a violating item at any position raises the             *)
(* "is not healthy" failure.                                               *)
C4_HealthyIffAllExact ==
    (Done("microservice_available_and_healthy") /\ ret # << >>) =>
        /\ ReturnedTrue <=>
              \A i \in DOMAIN ret : ret[i].available_replicas = <<ret[i].replicas>>
        /\ (\E i \in DOMAIN ret : ret[i].available_replicas # <<ret[i].replicas>>)
              => RaisedFailedActivity(
                    <<"microservice '", args.name, "' is not healthy">>)

(* A surplus of available replicas in the last position, after a healthy   *)
(* deployment, has raised. *)
C4_Witness ==
    /\ Done("microservice_available_and_healthy")
    /\ Len(ret) = 2
    /\ ret[1].available_replicas = <<ret[1].replicas>>
    /\ ret[2].available_replicas = <<2>>
    /\ ret[2].replicas = 1
    /\ outcome.kind = "raise"

(* C5: microservice_available_and_healthy raises the not-found failure,    *)
(* whose message embeds the requested name, if and only if the result set  *)
(* is empty, and that failure differs from the "is not healthy" one.       *)
C5_NotFoundIffEmpty ==
    Done("microservice_available_and_healthy") =>
        /\ RaisedFailedActivity(
              <<"microservice '", args.name, "' was not found">>) <=> ret = << >>
        /\ ret = << >> => \E k \in DOMAIN outcome.msg : outcome.msg[k] = args.name
        /\ <<"microservice '", args.name, "' was not found">>
              # <<"microservice '", args.name, "' is not healthy">>

C5_Witness ==
    /\ Done("microservice_available_and_healthy")
    /\ ret = << >>
    /\ args.name = "mysvc"
    /\ outcome.msg = <<"microservice '", "mysvc", "' was not found">>

(* C6: all_microservices_healthy returns True for every pod set whose      *)
(* phases are all Running or Succeeded, and raises only when some pod is   *)
(* Failed or has a phase outside {Running, Succeeded}.                     *)
C6_SucceededIsHealthy ==
    Done("all_microservices_healthy") =>
        (ReturnedTrue <=> \A i \in DOMAIN ret : ret[i] \in {"Running", "Succeeded"})

(* C7: every pod set with at least one Failed pod makes                    *)
(* all_microservices_healthy raise "the system is unhealthy", whatever the *)
(* other pods. *)
C7_FailedPodRaises ==
    (Done("all_microservices_healthy") /\ \E i \in DOMAIN ret : ret[i] = "Failed")
        => RaisedFailedActivity(<<"the system is unhealthy">>)

(* The Failed pod is the last of three, after two Running ones. *)
C7_Witness ==
    /\ Done("all_microservices_healthy")
    /\ ret = <<"Running", "Running", "Failed">>
    /\ outcome.kind = "raise"

Scanned == Done("all_pods_in_all_ns_are_ok")

(* A container is Ok when it is running or terminated with reason          *)
(* "Completed"; a pod is Ok when each of its containers is.                *)
ContainerOk(st) == st.running \/ st.terminated = <<"Completed">>

PodOk(pod) ==
    \/ pod.container_statuses = << >>
    \/ \A j \in DOMAIN pod.container_statuses[1] :
          ContainerOk(pod.container_statuses[1][j])

IgnoreListGiven == args.ns_ignore_list # << >>

Ignored(pod) ==
    \E k \in DOMAIN args.ns_ignore_list[1] :
        args.ns_ignore_list[1][k] = pod.namespace

(* C8: in the fleet scan a container terminated with reason "Completed"    *)
(* counts as Ok like a running one: a fleet whose containers are each      *)
(* running or terminated-Completed yields True, also with an empty ignore  *)
(* list.                                                                   *)
C8_CompletedCountsAsOk ==
    (Scanned /\ IgnoreListGiven /\ \A i \in DOMAIN ret : PodOk(ret[i]))
        => ReturnedTrue

(* C9: the aggregate of the fleet scan is the AND over the non-ignored     *)
(* pods: it is False if and only if some not-Ok pod lies in a namespace    *)
(* outside the ignore list, whatever the order of the pods.                *)
C9_AggregateOverNonIgnored ==
    (Scanned /\ IgnoreListGiven) =>
        /\ outcome.kind = "return"
        /\ outcome.value = "False" <=>
              \E i \in DOMAIN ret : ~PodOk(ret[i]) /\ ~Ignored(ret[i])

(* No container of the fleet is terminated with reason "Completed": the    *)
(* fleets on which "not Ok" and "not running" are the same.                *)
NoCompletedContainer ==
    \A i \in DOMAIN ret : ret[i].container_statuses # << >> =>
        \A j \in DOMAIN ret[i].container_statuses[1] :
            ret[i].container_statuses[1][j].terminated # <<"Completed">>

(* C10: the fleet scan emits exactly one Diagnostic per not-Ok pod,        *)
(* ignored or not, none for an Ok pod, and each Diagnostic carries the     *)
(* pod's hostIP, namespace and name and the state of its container that is *)
(* not Ok.  Stated for the fleets without a Completed container, where the *)
(* treatment of Completed plays no part.                                   *)
C10_OneDiagnosticPerNotOkPod ==
    (Scanned /\ outcome.kind = "return" /\ NoCompletedContainer) =>
        /\ Len(log) = Cardinality({i \in DOMAIN ret : ~PodOk(ret[i])})
        /\ \A k \in DOMAIN log : \E i \in DOMAIN ret :
              /\ ~PodOk(ret[i])
              /\ log[k].host_ip = ret[i].host_ip
              /\ log[k].namespace = ret[i].namespace
              /\ log[k].name = ret[i].name
              /\ \E j \in DOMAIN ret[i].container_statuses[1] :
                    /\ ~ContainerOk(ret[i].container_statuses[1][j])
                    /\ log[k].state = ret[i].container_statuses[1][j]

(* C11: the fleet scan returns a boolean for every fleet and every ignore  *)
(* list, the omitted one (the default None) included: with no ignore list  *)
(* a fleet with a container that is not running yields False, not an       *)
(* error.                                                                  *)
C11_ScanReturnsBoolean ==
    Scanned => outcome.kind = "return" /\ outcome.value \in {"True", "False"}

(* C12: the fleet scan of a fleet with zero pods returns True, for every   *)
(* ignore list.                                                            *)
C12_EmptyFleetIsOk ==
    (Scanned /\ ret = << >>) => ReturnedTrue /\ log = << >>

(* The empty fleet was scanned under an ignore list naming a namespace. *)
C12_Witness ==
    /\ Scanned /\ ret = << >>
    /\ args.ns_ignore_list = <<<<"db-catalog">>>>
    /\ ReturnedTrue

(* C13: service_endpoint_is_initialized returns True exactly when the      *)
(* result set of services is non-empty; on an empty result set it raises   *)
(* FailedActivity "service '<name>' is not initialized"; it never returns  *)
(* a falsy value.                                                          *)
C13_InitializedIffNonEmpty ==
    Done("service_endpoint_is_initialized") =>
        /\ ReturnedTrue <=> ret # << >>
        /\ ret = << >> => RaisedFailedActivity(NotInitializedMsg(args.name))
        /\ outcome.kind = "return" => outcome.value = "True"

(* The probe met an empty result set and raised. *)
C13_Witness ==
    /\ Done("service_endpoint_is_initialized")
    /\ ret = << >>
    /\ RaisedFailedActivity(NotInitializedMsg("mysvc"))

(* C14: microservice_is_not_available raises FailedActivity                *)
(* "microservice '<name>' is actually running" exactly when a selected pod *)
(* has phase Running; every pod set without a Running pod, the empty one   *)
(* included, returns True.                                                 *)
C14_RaisesIffSomePodRunning ==
    Done("microservice_is_not_available") =>
        LET running == \E i \in DOMAIN ret : ret[i] = "Running"
        IN  /\ RaisedFailedActivity(ActuallyRunningMsg(args.name)) <=> running
            /\ ~running <=> ReturnedTrue

(* Pods that are Pending, Failed and Succeeded, none Running: True. *)
C14_Witness ==
    /\ Done("microservice_is_not_available")
    /\ ret = <<"Pending", "Failed", "Succeeded">>
    /\ ReturnedTrue

(* The listing was delivered to check_quorum. *)
Listed == Done("check_quorum") /\ ret # << >>

(* The entries of the listing in the target datacenter that have, or have  *)
(* not, a passing serfHealth check.                                        *)
InDc == {i \in DOMAIN ret.nodes : ret.nodes[i].Datacenter = args.dc}
Healthy ==
    {i \in InDc : \E k \in DOMAIN ret.nodes[i].Checks :
        /\ ret.nodes[i].Checks[k].CheckID = "serfHealth"
        /\ ret.nodes[i].Checks[k].Status = "passing"}
Unhealthy == InDc \ Healthy

(* C15: check_quorum returns True exactly when, among the instances of the *)
(* target datacenter, the unhealthy ones (no passing serfHealth check) are *)
(* strictly fewer than the healthy ones; a tie, a healthy minority or no   *)
(* instance in the datacenter yields False; the instances of other         *)
(* datacenters do not count.                                               *)
C15_QuorumIffHealthyMajority ==
    Listed =>
        outcome = Return(IF Cardinality(Unhealthy) < Cardinality(Healthy)
                         THEN "True" ELSE "False")

(* create_k8s_api_client has ended; where the handle it built comes from   *)
(* ("" when it built none).                                                *)
Built == Done("create_k8s_api_client")
Source == IF client = None THEN "" ELSE client[1].source
FlagSet == env.CHAOSTOOLKIT_IN_POD = Some("true")

SelectorsSent ==
    {calls[i].label_selector[1] : i \in
        {k \in DOMAIN calls : /\ "label_selector" \in DOMAIN calls[k]
                              /\ calls[k].label_selector # None}}
Unbound(selector) == \E j \in DOMAIN selector : selector[j] = Placeholder

(* C17: in every probe and action that accepts a label_selector the {name} *)
(* placeholder is substituted before the selector reaches a list or watch  *)
(* call, so no call carries an unbound {name}; a selector without a        *)
(* placeholder reaches the call unchanged.                                 *)
C17_NoUnboundPlaceholderSent ==
    \A selector \in SelectorsSent :
        /\ ~Unbound(selector)
        /\ ~Unbound(args.label_selector) => selector = args.label_selector

ProbeNames ==
    {"all_microservices_healthy", "microservice_available_and_healthy",
     "microservice_is_not_available", "service_endpoint_is_initialized",
     "deployment_is_not_fully_available", "all_pods_in_all_ns_are_ok"}

(* C18: probes are read-only. Every step of a probe of probes.py, whether  *)
(* the probe goes on, returns or raises, leaves the cluster as it was, and *)
(* the calls the probe has issued are list and watch calls only: no        *)
(* create, delete, patch or scale.                                         *)
C18_ProbesAreReadOnly ==
    [][activity' \in ProbeNames =>
          /\ cluster' = cluster
          /\ \A i \in DOMAIN calls' : calls'[i].verb \in {"list", "watch"}]_vars

(* A probe raised on a cluster that holds the deployments. *)
C18_Witness ==
    /\ pc = "done" /\ activity \in ProbeNames
    /\ outcome.kind = "raise"
    /\ Cardinality(cluster) = 2
    /\ calls # << >>

(* The names of the nodes get_active_nodes returned. *)
ActiveNames == {outcome.value[k].name : k \in DOMAIN outcome.value}
InIgnoreList(taint) ==
    /\ args.taints_ignore_list # None
    /\ \E k \in DOMAIN args.taints_ignore_list[1] :
           args.taints_ignore_list[1][k] = taint

(* C20: get_active_nodes keeps a node with zero taints; keeps a node whose *)
(* only taint is an entry of the taints-ignore list; drops a node that     *)
(* carries a taint that is not in the supplied ignore list; and drops no   *)
(* node when no ignore list is supplied.                                   *)
C20_TaintFilter ==
    Done("get_active_nodes") =>
        \A i \in DOMAIN ret :
            LET taints == ret[i].taints
            IN  /\ taints = << >> => i \in ActiveNames
                /\ (Len(taints) = 1 /\ InIgnoreList(taints[1]))
                      => i \in ActiveNames
                /\ (/\ args.taints_ignore_list # None
                    /\ \E j \in DOMAIN taints : ~InIgnoreList(taints[j]))
                      => i \notin ActiveNames
                /\ args.taints_ignore_list = None => i \in ActiveNames

(* The list of test_get_non_tainted_nodes_filtered, extended: a node with  *)
(* an ignored and a foreign taint is dropped, a node with the ignored      *)
(* taint only is kept.                                                     *)
C20_Witness ==
    /\ Done("get_active_nodes")
    /\ args.taints_ignore_list = Some(<<TaintMaster, TaintSpot>>)
    /\ Len(ret) = 2
    /\ ret[1].taints = <<TaintSpot, TaintFake>>
    /\ ret[2].taints = <<TaintSpot>>
    /\ ActiveNames = {2}

(* The invocation that has ended got the arguments and listed the result   *)
(* set of the invocation on record.                                        *)
SameAsEarlier ==
    /\ pc = "done"
    /\ earlier # None
    /\ earlier[1].activity = activity
    /\ earlier[1].args = args
    /\ earlier[1].ret = ret

TaintedNames == {outcome.value[k].name : k \in DOMAIN outcome.value}
Asked == [key |-> args.key, value |-> args.value, effect |-> args.effect]

(* C21: get_tainted_nodes(key, value, effect) returns exactly the nodes    *)
(* that carry at least one taint equal to the whole triple: a node whose   *)
(* taint has the same key and effect but another value is not returned, an *)
(* untainted node is never returned, and the result is empty when no node  *)
(* matches.                                                                *)
C21_ExactTripleMatch ==
    Done("get_tainted_nodes") =>
        /\ \A i \in DOMAIN ret :
               i \in TaintedNames
                   <=> \E j \in DOMAIN ret[i].taints : ret[i].taints[j] = Asked
        /\ \A i \in DOMAIN ret : ret[i].taints = << >> => i \notin TaintedNames
        /\ (\A i \in DOMAIN ret : \A j \in DOMAIN ret[i].taints :
                ret[i].taints[j] # Asked) => outcome.value = << >>
        /\ \A k \in DOMAIN outcome.value : outcome.value[k] \in
               {ret[i] : i \in DOMAIN ret}

(* The list of test_get_tainted_nodes, with a second taint on the node     *)
(* that matches: the node with the other value is not returned.            *)
C21_Witness ==
    /\ Done("get_tainted_nodes")
    /\ Asked = TaintSpecial
    /\ Len(ret) = 2
    /\ ret[1].taints = <<TaintSpot>>
    /\ ret[2].taints = <<TaintFake, TaintSpecial>>
    /\ TaintedNames = {2}

(* The nodes of the list that pass the control-plane filter: each of their *)
(* taints is a control-plane taint.                                        *)
ActiveListed ==
    {i \in DOMAIN ret : \A j \in DOMAIN ret[i].taints : ret[i].taints[j] = TaintMaster}
Age(i) == Now - ret[i].creation_timestamp

(* C22: have_new_node(selector, age_limit) returns True if and only if at  *)
(* least one active node (control-plane taints implicitly ignored) has an  *)
(* age now - creationTimestamp strictly less than age_limit seconds; a     *)
(* fleet whose active nodes are all older than or exactly as old as the    *)
(* limit yields False.                                                     *)
C22_NewIffYoungerThanLimit ==
    Done("have_new_node") =>
        /\ outcome.value = "True"
               <=> \E i \in ActiveListed : Age(i) < args.age_limit
        /\ (\A i \in ActiveListed : Age(i) >= args.age_limit)
               => outcome.value = "False"

(* Two control-plane nodes as in test_have_new_node, one of them exactly   *)
(* as old as the limit and one older: no new node.                         *)
C22_Witness ==
    /\ Done("have_new_node")
    /\ args.age_limit = AgeLimit
    /\ Len(ret) = 2
    /\ ret[1].taints = <<TaintMaster>>
    /\ ret[2].taints = <<TaintMaster>>
    /\ Age(1) = AgeLimit
    /\ Age(2) = OldAge
    /\ outcome.value = "False"

(* The kind of resource a call of an action is about, and its place in the *)
(* order deployments, replica sets, pods.                                  *)
KindOf(call) ==
    CHOOSE k \in Kinds :
        call.api \in {ListApi(k, None), ListApi(k, Some("")), DeleteApi(k)}
Rank(call) ==
    CASE KindOf(call) = "deployment" -> 1
      [] KindOf(call) = "replica_set" -> 2
      [] KindOf(call) = "pod" -> 3

(* The resources of the cluster c a kill in namespace ns, with the         *)
(* selector the call cs[1] carried, is to delete.                          *)
Matching(c, ns, cs) ==
    {r \in c : r.ns = ns /\ r.label = SelectedLabel(cs[1].label_selector[1])}
Deleted(cs, kind) ==
    {k \in DOMAIN cs : cs[k].verb = "delete" /\ KindOf(cs[k]) = kind}
Lists(cs, kind) ==
    {k \in DOMAIN cs : cs[k].verb = "list" /\ KindOf(cs[k]) = kind}

(* C23: kill_microservice deletes the selected resources of namespace ns   *)
(* in a fixed order: every matching deployment is deleted before any       *)
(* matching replica set, and every matching replica set before any         *)
(* matching pod; replica sets and pods are listed after the deletions of   *)
(* the previous kind, and they are deleted also when no deployment         *)
(* matched. Of a run that an API error ends, the calls issued keep that    *)
(* order.                                                                  *)
C23_DeploymentsThenReplicaSetsThenPods ==
    [][activity' = "kill_microservice" =>
          /\ \A i, j \in DOMAIN calls' :
                 i < j => Rank(calls'[i]) <= Rank(calls'[j])
          /\ \A k \in Kinds : \A d \in Deleted(calls', k) :
                 \E l \in Lists(calls', k) : l < d
          /\ outcome'.kind = "return" =>
                 /\ \A k \in Kinds : Cardinality(Lists(calls', k)) = 1
                 /\ \A r \in Matching(cluster, args'.ns, calls') :
                        \E d \in Deleted(calls', r.kind) :
                            /\ calls'[d].name = r.name
                            /\ calls'[d].ns = r.ns
                 /\ cluster' = cluster \ Matching(cluster, args'.ns, calls')]_vars

(* No deployment matched; a replica set and a pod did, and were deleted,   *)
(* the replica set first.                                                  *)
C23_Witness ==
    /\ Done("kill_microservice")
    /\ outcome.kind = "return"
    /\ Len(calls) = 5
    /\ calls[1].verb = "list" /\ calls[2].verb = "list"
    /\ calls[3].verb = "delete" /\ KindOf(calls[3]) = "replica_set"
    /\ calls[4].verb = "list"
    /\ calls[5].verb = "delete" /\ KindOf(calls[5]) = "pod"
    /\ Cardinality(cluster) = 1

(* The resources of the cluster c, in any namespace, the selector the call *)
(* cs[1] carried matches.                                                  *)
Labelled(c, cs) ==
    {r \in c : r.label = SelectedLabel(cs[1].label_selector[1])}
Target(cs, k) == [kind |-> KindOf(cs[k]), ns |-> cs[k].ns, name |-> cs[k].name]
Id(r) == [kind |-> r.kind, ns |-> r.ns, name |-> r.name]

(* C24: kill_microservice_by_label deletes nothing when no deployment      *)
(* matches the label selector, even if replica sets or pods match it; and  *)
(* when an API error occurs part-way it returns normally (an ApiException  *)
(* never leaves it), leaving the resources deleted so far deleted and all  *)
(* remaining ones untouched.                                               *)
C24_GatedOnDeploymentsAndErrorsSwallowed ==
    [][activity' = "kill_microservice_by_label" =>
          /\ (\A r \in Labelled(cluster, calls') : r.kind # "deployment") =>
                 /\ cluster' = cluster
                 /\ \A k \in DOMAIN calls' : calls'[k].verb # "delete"
          /\ ~(outcome'.kind = "raise" /\ outcome'.exc = "ApiException")
          /\ cluster' \subseteq cluster
          /\ \A r \in cluster \ cluster' :
                 \E k \in DOMAIN calls' :
                     calls'[k].verb = "delete" /\ Target(calls', k) = Id(r)
          /\ \A k \in 1..(Len(calls') - 1) :
                 calls'[k].verb = "delete" =>
                     \A r \in cluster' : Id(r) # Target(calls', k)]_vars

(* The deletion of the replica set met an API error: the deployment stays  *)
(* deleted, the replica set and the pod are still there, and the action    *)
(* returned.                                                               *)
C24_Witness ==
    /\ Done("kill_microservice_by_label")
    /\ outcome.kind = "return"
    /\ Len(calls) = 4
    /\ calls[2].verb = "delete" /\ KindOf(calls[2]) = "deployment"
    /\ calls[4].verb = "delete" /\ KindOf(calls[4]) = "replica_set"
    /\ \E r \in cluster : Id(r) = Target(calls, 4)
    /\ \E r \in cluster : r.kind = "pod" /\ r \in Labelled(cluster, calls)
    /\ \A r \in cluster : r.kind # "deployment"

(* The ns-ignore-list the configuration of the invocation holds, as a set, *)
(* and the namespaces the cluster listed that are not in it.               *)
ConfiguredIgnores ==
    IF args.configuration = None \/ args.configuration[1] = None THEN {}
    ELSE {args.configuration[1][1][k] : k \in DOMAIN args.configuration[1][1]}
ListedNamespaces == {ret[i] : i \in DOMAIN ret}
Creates == {k \in DOMAIN calls : calls[k].verb = "create"}

(* C25: get_random_namespace never returns a namespace whose name is in    *)
(* the configured ns-ignore-list; it returns None exactly when every       *)
(* namespace of the cluster is ignored (or there is none), and             *)
(* deploy_objects_in_random_namespace then deploys nothing and ends in an  *)
(* error instead of deploying into an ignored namespace.                   *)
C25_NeverAnIgnoredNamespace ==
    [][/\ activity' = "get_random_namespace" =>
              /\ outcome'.kind = "return"
              /\ outcome'.value # None =>
                     outcome'.value[1] \in ListedNamespaces' \ ConfiguredIgnores'
              /\ outcome'.value = None
                     <=> ListedNamespaces' \subseteq ConfiguredIgnores'
       /\ activity' = "deploy_objects_in_random_namespace" =>
              /\ \A k \in Creates' :
                     calls'[k].ns \in ListedNamespaces' \ ConfiguredIgnores'
              /\ \A r \in cluster' \ cluster : r.ns \notin ConfiguredIgnores'
              /\ ListedNamespaces' \subseteq ConfiguredIgnores' =>
                     /\ Creates' = {}
                     /\ cluster' = cluster
                     /\ outcome'.kind = "raise"]_vars

(* Every namespace the cluster listed is ignored: the deployment into a    *)
(* random namespace raised and created nothing, on a cluster that holds    *)
(* what an earlier deployment created.                                     *)
C25_Witness ==
    /\ Done("deploy_objects_in_random_namespace")
    /\ Len(ret) = 2
    /\ ListedNamespaces \subseteq ConfiguredIgnores
    /\ outcome.kind = "raise" /\ outcome.exc = "AttributeError"
    /\ Creates = {}
    /\ cluster # {}

(* The pods of the fleet that report no container statuses. *)
Unreported == {i \in DOMAIN ret : ret[i].container_statuses = None}

(* C26: in the fleet scan, a pod that reports no container statuses        *)
(* (container_statuses is None, e.g. an unscheduled Pending pod) is        *)
(* skipped: it never flips the aggregate to False and never produces a     *)
(* Diagnostic, whatever its phase and namespace. The aggregate is False    *)
(* only for a container that is not running in a pod that reports its      *)
(* statuses, and a fleet of such pods only is ok, with any ignore list.    *)
C26_UnreportedPodIsSkipped ==
    Done("all_pods_in_all_ns_are_ok") =>
        /\ \A i \in Unreported : \A k \in DOMAIN log : log[k].name # ret[i].name
        /\ outcome.value = "False" =>
               \E i \in DOMAIN ret \ Unreported :
                   \E j \in DOMAIN ret[i].container_statuses[1] :
                       ~ret[i].container_statuses[1][j].running
        /\ Unreported = DOMAIN ret => outcome = Return("True") /\ log = << >>

(* A failed pod and a pending one in a namespace that is not ignored, both *)
(* without container statuses: the fleet is ok.                            *)
C26_Witness ==
    /\ Done("all_pods_in_all_ns_are_ok")
    /\ Len(ret) = 2
    /\ Unreported = {1, 2}
    /\ ret[1].phase = "Failed" /\ ret[2].phase = "Pending"
    /\ ret[1].namespace = "default"
    /\ args.ns_ignore_list = Some(<<"db-catalog">>)
    /\ outcome = Return("True")
    /\ log = << >>

====
